---- MODULE Spec2Model ----
(***************************************************************************)
(* Priority-SRTF non-preemptive process scheduler (process_scheduler.c).   *)
(*                                                                         *)
(* Two flows share the process table, the ready queue and the waiting      *)
(* queue: the scheduler loop (run_scheduler, main thread) and the I/O      *)
(* manager (io_manager_thread).  Every access to the queues is made while  *)
(* holding queue_mutex; the model keeps the mutex as a variable and splits *)
(* each critical section into the steps of the code, so that the states    *)
(* inside a critical section exist and are told apart from the states      *)
(* observable with the mutex free.  The critical sections on clock_mutex   *)
(* contain a single access to current_clock and are modelled as one step.  *)
(* Processes are identified by their index in all_processes; 0 is NULL.    *)
(***************************************************************************)
EXTENDS Integers, Sequences, FiniteSets, TLC

\* ---------------------------------------------------------------------------
\* Bounds and program constants
\* ---------------------------------------------------------------------------

\* Largest number of scheduler ticks between two reads of the clock by the
\* I/O manager (how far the manager's loop may fall behind the scheduler).
MaxLag == 2

\* update_aging: the 100 ms aging period.
AGING_PERIOD == 100

NULL == 0

\* ---------------------------------------------------------------------------
\* Inputs: well-formed process descriptors
\*   (arrival_time >= 0, cpu_execution_time > 0, interval_time > 0,
\*    io_time >= 0, priority in 0..10)
\* ---------------------------------------------------------------------------

Desc(a, c, i, o, p) ==
    [arrival_time |-> a, cpu_execution_time |-> c, interval_time |-> i,
     io_time |-> o, priority |-> p]

\* Short runs: one process of any of these shapes.
SmallDescs ==
    { Desc(a, c, i, o, p) : a \in {0, 2}, c \in {1, 3}, i \in {1, 2},
                            o \in {0, 2}, p \in {0, 1} }

\* Companions of a process that blocks for I/O after every 1 ms burst.
IoCompanions ==
    { Desc(0, 3, 1, 0, 1), Desc(2, 1, 1, 0, 0), Desc(0, 3, 2, 2, 0) }

\* Two of these share the ready queue while a third process runs.
ThirdDescs ==
    { Desc(0, 1, 1, 0, 1), Desc(2, 3, 2, 0, 1) }

SmallInputs ==
    { <<d>> : d \in SmallDescs } \cup
    { << Desc(0, 3, 2, 0, 1), e >> : e \in SmallDescs } \cup
    { << Desc(0, 3, 1, 2, 1), e >> : e \in IoCompanions } \cup
    { << Desc(0, 3, 2, 2, 0), d, e >> : d \in ThirdDescs, e \in ThirdDescs }

\* Long runs, in which a record stays in the ready queue for 100 ticks or more.
AgingInputs ==
    { \* one record waits alone behind a 101 ms burst
      << Desc(0, 101, 101, 0, 1), Desc(0, 1, 1, 0, 2) >>,
      \* two records wait together behind a 102 ms burst
      << Desc(0, 102, 102, 0, 0), Desc(0, 1, 1, 0, 3), Desc(0, 2, 2, 0, 3) >>,
      \* a record reaches priority 0 and keeps waiting
      << Desc(0, 205, 205, 0, 0), Desc(0, 1, 1, 0, 1) >>,
      \* a record ages in the very pass that follows another record's arrival
      << Desc(0, 110, 110, 0, 0), Desc(0, 1, 1, 0, 3), Desc(101, 1, 1, 0, 2) >>,
      \* a record returns from I/O into the ready queue during a long burst
      << Desc(0, 3, 2, 4, 1), Desc(1, 110, 110, 0, 3), Desc(3, 2, 2, 0, 3) >> }

Inputs == SmallInputs \cup AgingInputs

\* Inputs of the runs checked under fairness.
FairInputs ==
    { <<d>> : d \in SmallDescs } \cup
    { << Desc(0, 3, 1, 2, 1), e >> : e \in IoCompanions }

\* Input files of the runs that start in main; the first one has no line.
MainInputs == { <<>> } \cup FairInputs

\* The single-record scenario: pid 1, arrival 0, cpu 300, interval 100,
\* I/O 50, priority 2.
SingleRecord == << Desc(0, 300, 100, 50, 2) >>

\* The tie-breaking scenario: A and B of priority 5, A arrives at 0 with 500 ms
\* of work and a first burst of 149 ms or more, B arrives at 50.
TieBreak ==
    { << Desc(0, 500, 149, 10, 5), Desc(50, 30, 20, 3, 5) >>,
      << Desc(0, 500, 200, 10, 5), Desc(50, 20, 20, 0, 5) >> }

\* Inputs of the scenario runs; the last one keeps two records waiting for
\* I/O at the same time.
ScenarioInputs ==
    { SingleRecord } \cup TieBreak
    \cup { << Desc(0, 3, 1, 2, 1), Desc(0, 3, 1, 0, 1) >> }

\* parse_input_file: the record built for one input line.
NewProcess(d) ==
    [arrival_time        |-> d.arrival_time,
     cpu_execution_time  |-> d.cpu_execution_time,
     remaining_time      |-> d.cpu_execution_time,
     interval_time       |-> d.interval_time,
     io_time             |-> d.io_time,
     priority            |-> d.priority,
     original_priority   |-> d.priority,
     state               |-> "NEW",
     time_in_ready_queue |-> 0,
     io_completion_time  |-> 0,
     has_arrived         |-> FALSE]

VARIABLES
    input_file,       \* main: the descriptors of the input file, one per line
    all_processes,    \* the process table (sequence of process records)
    current_clock,    \* global clock
    all_terminated,   \* simulation-finished flag
    ready_queue,      \* sequence of process indices, head first
    waiting_queue,    \* sequence of process indices, head first
    queue_mutex,      \* "free", "sched" or "mon"
    pc_s,             \* position of run_scheduler
    clock_s,          \* run_scheduler: local clock
    running_process,  \* run_scheduler: the running slot (NULL when vacant)
    running_until,    \* run_scheduler: tick at which the burst ends
    last_aging_check, \* run_scheduler: tick of the last aging pass
    pc_m,             \* position of io_manager_thread
    clock_m,          \* io_manager_thread: local clock
    idx_m,            \* io_manager_thread: position of current in waiting_queue
    completed_m,      \* io_manager_thread: record removed and not yet inserted
    synced_m,         \* the manager locked queue_mutex after the flag was raised
    lag,              \* scheduler ticks since the manager last read the clock
    dispatched_at,    \* history: tick of the last dispatch
    burst_len,        \* history: burst length computed at the last dispatch
    ran,              \* history: per record, ticks spent in the running slot
    span_start,       \* history: per READY record, clock at its entry into ready
    span_prio,        \* history: per READY record, priority at its entry
    last_event,       \* history: clock value of the latest event (-1: none)
    dispatches,       \* history: per record, number of dispatch events
    blocks,           \* history: per record, number of blocked-for-I/O events
    clock_mutex,      \* owner of clock_mutex: "free", "sched" or "mon"
    output_mutex,     \* owner of output_mutex: "free", "sched" or "mon"
    printed_s,        \* run_scheduler: events printed so far
    printed_m         \* io_manager_thread: events printed so far

vars == << input_file, all_processes, current_clock, all_terminated, ready_queue,
           waiting_queue, queue_mutex, pc_s, clock_s, running_process,
           running_until, last_aging_check, pc_m, clock_m, idx_m,
           completed_m, synced_m, lag, dispatched_at, burst_len, ran,
           span_start, span_prio, last_event, dispatches, blocks,
           clock_mutex, output_mutex, printed_s, printed_m >>

total_processes == Len(all_processes)
Pids == 1..total_processes

\* ---------------------------------------------------------------------------
\* Queue operations
\* ---------------------------------------------------------------------------

is_empty(q) == Len(q) = 0

enqueue(q, p) == Append(q, p)

\* Faulty unlinking: the head is dropped whatever the position of current.
RemoveAt_head(q, i) == Tail(q)

\* io_manager_thread, lines 368-379: unlink the element at position i.
RemoveAt(q, i) == SubSeq(q, 1, i - 1) \o SubSeq(q, i + 1, Len(q))

\* Faulty comparison: the remaining-time tie-break is left out.
should_insert_priority_only(all, p, cur) ==
    all[p].priority < all[cur].priority

\* Faulty comparison: p also goes before a record with an equal key.
should_insert_unstable(all, p, cur) ==
    \/ all[p].priority < all[cur].priority
    \/ /\ all[p].priority = all[cur].priority
       /\ all[p].remaining_time <= all[cur].remaining_time

\* insert_ready_queue, the comparison of the search loop: p goes before cur.
should_insert(all, p, cur) ==
    \/ all[p].priority < all[cur].priority
    \/ /\ all[p].priority = all[cur].priority
       /\ all[p].remaining_time < all[cur].remaining_time

\* insert_ready_queue, the search loop: number of elements left before p.
RECURSIVE InsertPos(_, _, _, _)
InsertPos(all, q, p, k) ==
    IF k > Len(q) THEN Len(q)
    ELSE IF should_insert(all, p, q[k]) THEN k - 1
    ELSE InsertPos(all, q, p, k + 1)

\* Faulty insertion: p is linked at the head whatever its key.
insert_ready_queue_front(all, q, p) ==
    [all |-> [all EXCEPT ![p].time_in_ready_queue = 0], q |-> <<p>> \o q]

\* insert_ready_queue: resets the aging timer of p and links p at its place.
insert_ready_queue(all, q, p) ==
    LET all1 == [all EXCEPT ![p].time_in_ready_queue = 0]
        n    == InsertPos(all1, q, p, 1)
    IN  [all |-> all1,
         q   |-> SubSeq(q, 1, n) \o <<p>> \o SubSeq(q, n + 1, Len(q))]

\* Faulty aging: the priority is decremented without the floor at 0.
AgeOne_nofloor(r, elapsed_ms) ==
    LET t == r.time_in_ready_queue + elapsed_ms
    IN  IF t >= AGING_PERIOD
        THEN [r EXCEPT !.time_in_ready_queue = t % AGING_PERIOD,
                       !.priority = r.priority - (t \div AGING_PERIOD)]
        ELSE [r EXCEPT !.time_in_ready_queue = t]

\* update_aging, the body of the loop for one record.
AgeOne(r, elapsed_ms) ==
    LET t == r.time_in_ready_queue + elapsed_ms
    IN  IF t >= AGING_PERIOD
        THEN LET aging_steps == t \div AGING_PERIOD
                 dec == r.priority - aging_steps
             IN  [r EXCEPT !.time_in_ready_queue = t % AGING_PERIOD,
                           !.priority = IF r.priority > 0
                                        THEN (IF dec < 0 THEN 0 ELSE dec)
                                        ELSE r.priority]
        ELSE [r EXCEPT !.time_in_ready_queue = t]

InQueue(q, p) == \E k \in 1..Len(q) : q[k] = p

\* update_aging: every record of the ready queue ages by elapsed_ms.
update_aging(all, q, elapsed_ms) ==
    [p \in DOMAIN all |->
        IF InQueue(q, p) THEN AgeOne(all[p], elapsed_ms) ELSE all[p]]

\* resort_ready_queue, the re-insertion loop over the drained records.
RECURSIVE Reinsert(_, _, _, _)
Reinsert(all, q, drained, i) ==
    IF i > Len(drained) THEN [all |-> all, q |-> q]
    ELSE LET r == insert_ready_queue(all, q, drained[i])
         IN  Reinsert(r.all, r.q, drained, i + 1)

\* Lines 452-463 alone: every record is dequeued, then each is inserted again
\* with insert_ready_queue, in the order of the dequeues.
drain_and_reinsert(all, q) == Reinsert(all, <<>>, q, 1)

\* Faulty re-sort: no early return, a single resident is re-inserted too.
resort_ready_queue_always(all, q) == Reinsert(all, <<>>, q, 1)

\* resort_ready_queue.
resort_ready_queue(all, q) ==
    IF Len(q) <= 1 THEN [all |-> all, q |-> q]
    ELSE Reinsert(all, <<>>, q, 1)

\* ---------------------------------------------------------------------------
\* Initial state: main after parse_input_file and init_queue
\* ---------------------------------------------------------------------------

InitWith(inputs) ==
    /\ input_file \in inputs
    /\ all_processes = [i \in 1..Len(input_file) |-> NewProcess(input_file[i])]
    /\ current_clock = 0
    /\ all_terminated = FALSE
    /\ ready_queue = <<>>
    /\ waiting_queue = <<>>
    /\ queue_mutex = "free"
    /\ pc_s = "tick"
    /\ clock_s = 0
    /\ running_process = NULL
    /\ running_until = 0
    /\ last_aging_check = 0
    /\ pc_m = "check"
    /\ clock_m = 0
    /\ idx_m = 1
    /\ completed_m = NULL
    /\ synced_m = FALSE
    /\ lag = 0
    /\ dispatched_at = 0
    /\ burst_len = 0
    /\ ran = [p \in DOMAIN all_processes |-> 0]
    /\ span_start = [p \in DOMAIN all_processes |-> 0]
    /\ span_prio = [p \in DOMAIN all_processes |-> 0]
    /\ last_event = -1
    /\ dispatches = [p \in DOMAIN all_processes |-> 0]
    /\ blocks = [p \in DOMAIN all_processes |-> 0]
    /\ clock_mutex = "free"
    /\ output_mutex = "free"
    /\ printed_s = 0
    /\ printed_m = 0

Init == InitWith(Inputs)

sched_locals == << clock_s, running_process, running_until, last_aging_check >>
mon_locals == << pc_m, clock_m, idx_m, completed_m, synced_m >>
history == << dispatched_at, burst_len, ran, span_start, span_prio,
             last_event, dispatches, blocks >>

\* clock_mutex, output_mutex and the counts of printed events.  The steps of
\* run_scheduler and io_manager_thread above take the critical sections of
\* these two mutexes as part of one step and leave them free; the section
\* "Locking protocol" below takes every lock and unlock as a step of its own.
locking == << clock_mutex, output_mutex, printed_s, printed_m >>

\* ---------------------------------------------------------------------------
\* run_scheduler
\* ---------------------------------------------------------------------------

\* Lines 486-489: advance the global clock under clock_mutex.
S_Tick ==
    /\ pc_s = "tick"
    /\ lag < MaxLag
    /\ current_clock' = current_clock + 1
    /\ clock_s' = current_clock + 1
    /\ lag' = lag + 1
    /\ pc_s' = "lockq"
    /\ UNCHANGED << input_file, locking >>
    /\ UNCHANGED << all_processes, all_terminated, ready_queue, waiting_queue,
                    queue_mutex, running_process, running_until,
                    last_aging_check, mon_locals, history >>

\* Line 491: pthread_mutex_lock(&queue_mutex).
S_Lock ==
    /\ pc_s = "lockq"
    /\ queue_mutex = "free"
    /\ queue_mutex' = "sched"
    /\ pc_s' = "arrive"
    /\ UNCHANGED << input_file, locking >>
    /\ UNCHANGED << all_processes, current_clock, all_terminated, ready_queue,
                    waiting_queue, sched_locals, mon_locals, lag, history >>

\* Lines 494-514, the admission loop from index i on.
RECURSIVE Admit(_, _, _, _)
Admit(all, q, i, clock) ==
    IF i > Len(all) THEN [all |-> all, q |-> q]
    ELSE IF ~all[i].has_arrived /\ all[i].arrival_time <= clock
         THEN LET all1 == [all EXCEPT ![i].has_arrived = TRUE,
                                      ![i].state = "READY"]
                  r == insert_ready_queue(all1, q, i)
              IN  Admit(r.all, r.q, i + 1, clock)
         ELSE Admit(all, q, i + 1, clock)

\* Lines 494-514: check for new arrivals.
S_Arrive ==
    /\ pc_s = "arrive"
    /\ LET r == Admit(all_processes, ready_queue, 1, clock_s)
           admitted == { p \in Pids : ~all_processes[p].has_arrived
                                      /\ r.all[p].has_arrived }
       IN  /\ all_processes' = r.all
           /\ ready_queue' = r.q
           /\ span_start' = [p \in Pids |->
                               IF p \in admitted THEN current_clock
                               ELSE span_start[p]]
           /\ span_prio' = [p \in Pids |->
                               IF p \in admitted THEN all_processes[p].priority
                               ELSE span_prio[p]]
           /\ last_event' = IF admitted # {} THEN clock_s ELSE last_event
    /\ pc_s' = "age"
    /\ UNCHANGED << input_file, locking >>
    /\ UNCHANGED << current_clock, all_terminated, waiting_queue, queue_mutex,
                    sched_locals, mon_locals, lag, dispatched_at, burst_len,
                    ran, dispatches, blocks >>

\* Lines 517-522: aging pass followed by the re-sort.
S_Age ==
    /\ pc_s = "age"
    /\ IF clock_s > last_aging_check
       THEN LET elapsed == clock_s - last_aging_check
                aged == update_aging(all_processes, ready_queue, elapsed)
                r == resort_ready_queue(aged, ready_queue)
            IN  /\ all_processes' = r.all
                /\ ready_queue' = r.q
                /\ last_aging_check' = clock_s
       ELSE UNCHANGED << all_processes, ready_queue, last_aging_check >>
    /\ pc_s' = "resolve"
    /\ UNCHANGED << input_file, locking >>
    /\ UNCHANGED << current_clock, all_terminated, waiting_queue, queue_mutex,
                    clock_s, running_process, running_until, mon_locals, lag,
                    history >>

\* Faulty charge: the clock-derived burst time is not clamped.
consumed_burst_unclamped(r, clock, until) ==
    clock - (until - r.interval_time)

\* Lines 527-530: the burst time charged when the burst is resolved.
consumed_burst(r, clock, until) ==
    LET burst_time == clock - (until - r.interval_time)
    IN  IF burst_time > r.remaining_time THEN r.remaining_time ELSE burst_time

\* Faulty burst test: a waiting ready record ends the burst at once.
burst_over_preempt ==
    /\ running_process # NULL
    /\ (clock_s >= running_until \/ ~is_empty(ready_queue))

\* Faulty burst test: the burst is resolved one tick late.
burst_over_late == running_process # NULL /\ clock_s > running_until

\* Line 525: the running process has finished its burst.
burst_over == running_process # NULL /\ clock_s >= running_until

\* Line 525 not taken: no burst ends at this tick.
S_NoResolve ==
    /\ pc_s = "resolve"
    /\ ~burst_over
    /\ pc_s' = "dispatch"
    /\ UNCHANGED << input_file, locking >>
    /\ UNCHANGED << all_processes, current_clock, all_terminated, ready_queue,
                    waiting_queue, queue_mutex, sched_locals, mon_locals, lag,
                    history >>

\* Lines 525-543: the burst ends and the process terminates.
S_Terminate ==
    /\ pc_s = "resolve"
    /\ burst_over
    /\ LET p == running_process
           r == all_processes[p]
           rem == r.remaining_time - consumed_burst(r, clock_s, running_until)
       IN  /\ rem <= 0
           /\ all_processes' = [all_processes EXCEPT
                                  ![p].remaining_time = rem,
                                  ![p].state = "TERMINATED"]
           /\ ran' = [ran EXCEPT ![p] = @ + (clock_s - dispatched_at)]
    /\ running_process' = NULL
    /\ last_event' = clock_s
    /\ pc_s' = "dispatch"
    /\ UNCHANGED << input_file, locking >>
    /\ UNCHANGED << current_clock, all_terminated, ready_queue, waiting_queue,
                    queue_mutex, clock_s, running_until, last_aging_check,
                    mon_locals, lag, dispatched_at, burst_len, span_start,
                    span_prio, dispatches, blocks >>

\* Lines 525-532, 544-557: the burst ends and the process blocks for I/O.
S_Block ==
    /\ pc_s = "resolve"
    /\ burst_over
    /\ LET p == running_process
           r == all_processes[p]
           rem == r.remaining_time - consumed_burst(r, clock_s, running_until)
       IN  /\ rem > 0
           /\ all_processes' = [all_processes EXCEPT
                                  ![p].remaining_time = rem,
                                  ![p].state = "WAITING",
                                  ![p].io_completion_time = clock_s + r.io_time]
           /\ waiting_queue' = enqueue(waiting_queue, p)
           /\ ran' = [ran EXCEPT ![p] = @ + (clock_s - dispatched_at)]
           /\ blocks' = [blocks EXCEPT ![p] = @ + 1]
    /\ running_process' = NULL
    /\ last_event' = clock_s
    /\ pc_s' = "dispatch"
    /\ UNCHANGED << input_file, locking >>
    /\ UNCHANGED << current_clock, all_terminated, ready_queue, queue_mutex,
                    clock_s, running_until, last_aging_check, mon_locals, lag,
                    dispatched_at, burst_len, span_start, span_prio,
                    dispatches >>

\* Faulty burst length: the interval is not clamped to the remaining time.
dispatch_burst_unclamped(r) == r.interval_time

\* Faulty burst length: the whole remaining time is taken as one burst.
dispatch_burst_remaining(r) == r.remaining_time

\* Lines 566-569: burst length = min(interval_time, remaining_time).
dispatch_burst(r) ==
    IF r.interval_time > r.remaining_time THEN r.remaining_time
    ELSE r.interval_time

\* Faulty dispatch test: a single ready record is left waiting.
can_dispatch_lazy == running_process = NULL /\ Len(ready_queue) >= 2

\* Faulty dispatch test: the running slot is not checked.
can_dispatch_preempt == ~is_empty(ready_queue)

\* Line 561: the CPU is idle and a process is ready.
can_dispatch == running_process = NULL /\ ~is_empty(ready_queue)

\* Lines 561-579: dequeue the head of the ready queue and run it.
S_Dispatch ==
    /\ pc_s = "dispatch"
    /\ can_dispatch
    /\ LET p == Head(ready_queue)
           burst_time == dispatch_burst(all_processes[p])
       IN  /\ running_process' = p
           /\ ready_queue' = Tail(ready_queue)
           /\ all_processes' = [all_processes EXCEPT ![p].state = "RUNNING"]
           /\ running_until' = clock_s + burst_time
           /\ dispatched_at' = clock_s
           /\ burst_len' = burst_time
           /\ span_start' = [span_start EXCEPT ![p] = 0]
           /\ span_prio' = [span_prio EXCEPT ![p] = 0]
           /\ dispatches' = [dispatches EXCEPT ![p] = @ + 1]
    /\ last_event' = clock_s
    /\ pc_s' = "finish"
    /\ UNCHANGED << input_file, locking >>
    /\ UNCHANGED << current_clock, all_terminated, waiting_queue, queue_mutex,
                    clock_s, last_aging_check, mon_locals, lag, ran, blocks >>

\* Line 561 not taken.
S_NoDispatch ==
    /\ pc_s = "dispatch"
    /\ ~can_dispatch
    /\ pc_s' = "finish"
    /\ UNCHANGED << input_file, locking >>
    /\ UNCHANGED << all_processes, current_clock, all_terminated, ready_queue,
                    waiting_queue, queue_mutex, sched_locals, mon_locals, lag,
                    history >>

\* Faulty test: one terminated process is enough.
all_done_any == \E i \in Pids : all_processes[i].state = "TERMINATED"

\* Lines 582-588: every process is terminated.
all_done == \A i \in Pids : all_processes[i].state = "TERMINATED"

\* Faulty exit: the loop is left without raising all_terminated.
S_Finish_noflag ==
    /\ pc_s = "finish"
    /\ all_done /\ running_process = NULL
    /\ queue_mutex' = "free"
    /\ pc_s' = "exit"
    /\ UNCHANGED << input_file, locking >>
    /\ UNCHANGED << all_processes, current_clock, all_terminated, ready_queue,
                    waiting_queue, sched_locals, mon_locals, lag, history >>

\* Lines 590-594: raise the flag, unlock and leave the loop.
S_Finish ==
    /\ pc_s = "finish"
    /\ all_done /\ running_process = NULL
    /\ all_terminated' = TRUE
    /\ queue_mutex' = "free"
    /\ pc_s' = "exit"
    /\ UNCHANGED << input_file, locking >>
    /\ UNCHANGED << all_processes, current_clock, ready_queue, waiting_queue,
                    sched_locals, mon_locals, lag, history >>

\* Lines 596-598: unlock, sleep and go to the next tick.
S_Continue ==
    /\ pc_s = "finish"
    /\ ~(all_done /\ running_process = NULL)
    /\ queue_mutex' = "free"
    /\ pc_s' = "tick"
    /\ UNCHANGED << input_file, locking >>
    /\ UNCHANGED << all_processes, current_clock, all_terminated, ready_queue,
                    waiting_queue, sched_locals, mon_locals, lag, history >>

Scheduler ==
    \/ S_Tick \/ S_Lock \/ S_Arrive \/ S_Age \/ S_NoResolve \/ S_Terminate
    \/ S_Block \/ S_Dispatch \/ S_NoDispatch \/ S_Finish \/ S_Continue

\* ---------------------------------------------------------------------------
\* io_manager_thread
\* ---------------------------------------------------------------------------

\* Line 348, the loop test.  all_terminated is read without a lock: once the
\* manager has locked queue_mutex after the flag was raised it reads the
\* raised flag; before that the read races with the write of line 591 and
\* yields either value.
M_Check ==
    /\ pc_m = "check"
    /\ \/ /\ all_terminated
          /\ pc_m' = "exit"
       \/ /\ ~(all_terminated /\ synced_m)
          /\ pc_m' = "readclock"
    /\ UNCHANGED << input_file, locking >>
    /\ UNCHANGED << all_processes, current_clock, all_terminated, ready_queue,
                    waiting_queue, queue_mutex, pc_s, sched_locals, clock_m,
                    idx_m, completed_m, synced_m, lag, history >>

\* Lines 349-353: sleep, then read the global clock under clock_mutex.
M_ReadClock ==
    /\ pc_m = "readclock"
    /\ clock_m' = current_clock
    /\ pc_m' = "lockq"
    /\ lag' = 0
    /\ UNCHANGED << input_file, locking >>
    /\ UNCHANGED << all_processes, current_clock, all_terminated, ready_queue,
                    waiting_queue, queue_mutex, pc_s, sched_locals, idx_m,
                    completed_m, synced_m, history >>

\* Lines 355-359: lock queue_mutex and start the scan at the head.
M_Lock ==
    /\ pc_m = "lockq"
    /\ queue_mutex = "free"
    /\ queue_mutex' = "mon"
    /\ idx_m' = 1
    /\ synced_m' = all_terminated
    /\ pc_m' = "scan"
    /\ UNCHANGED << input_file, locking >>
    /\ UNCHANGED << all_processes, current_clock, all_terminated, ready_queue,
                    waiting_queue, pc_s, sched_locals, clock_m, completed_m,
                    lag, history >>

\* Faulty deadline test: off by one, a record is released one tick early.
io_completed_early(clock, r) == clock + 1 >= r.io_completion_time

\* Line 362: the I/O of record r is complete at the clock value read.
io_completed(clock, r) == clock >= r.io_completion_time

\* Lines 361-388: current has completed its I/O; unlink it, mark it READY
\* and print "finished I/O" with the clock value read before the scan.
M_Remove ==
    /\ pc_m = "scan"
    /\ idx_m <= Len(waiting_queue)
    /\ LET p == waiting_queue[idx_m]
       IN  /\ io_completed(clock_m, all_processes[p])
           /\ waiting_queue' = RemoveAt(waiting_queue, idx_m)
           /\ all_processes' = [all_processes EXCEPT ![p].state = "READY"]
           /\ completed_m' = p
    /\ last_event' = clock_m
    /\ pc_m' = "insert"
    /\ UNCHANGED << input_file, locking >>
    /\ UNCHANGED << current_clock, all_terminated, ready_queue, queue_mutex,
                    pc_s, sched_locals, clock_m, idx_m, synced_m, lag,
                    dispatched_at, burst_len, ran, span_start, span_prio,
                    dispatches, blocks >>

\* Lines 391-396: insert the completed record into the ready queue and print
\* "moved to READY queue" with the clock value read before the scan.
M_Insert ==
    /\ pc_m = "insert"
    /\ LET r == insert_ready_queue(all_processes, ready_queue, completed_m)
       IN  /\ all_processes' = r.all
           /\ ready_queue' = r.q
    /\ span_start' = [span_start EXCEPT ![completed_m] = current_clock]
    /\ span_prio' = [span_prio EXCEPT
                       ![completed_m] = all_processes[completed_m].priority]
    /\ completed_m' = NULL
    /\ last_event' = clock_m
    /\ pc_m' = "scan"
    /\ UNCHANGED << input_file, locking >>
    /\ UNCHANGED << current_clock, all_terminated, waiting_queue, queue_mutex,
                    pc_s, sched_locals, clock_m, idx_m, synced_m, lag,
                    dispatched_at, burst_len, ran, dispatches, blocks >>

\* Lines 398-401: current is not due; advance prev and current.
M_Skip ==
    /\ pc_m = "scan"
    /\ idx_m <= Len(waiting_queue)
    /\ ~io_completed(clock_m, all_processes[waiting_queue[idx_m]])
    /\ idx_m' = idx_m + 1
    /\ UNCHANGED << input_file, locking >>
    /\ UNCHANGED << all_processes, current_clock, all_terminated, ready_queue,
                    waiting_queue, queue_mutex, pc_s, sched_locals, pc_m,
                    clock_m, completed_m, synced_m, lag, history >>

\* Lines 361, 404: current is NULL; unlock and go back to the loop test.
M_Unlock ==
    /\ pc_m = "scan"
    /\ idx_m > Len(waiting_queue)
    /\ queue_mutex' = "free"
    /\ pc_m' = "check"
    /\ UNCHANGED << input_file, locking >>
    /\ UNCHANGED << all_processes, current_clock, all_terminated, ready_queue,
                    waiting_queue, pc_s, sched_locals, clock_m, idx_m,
                    completed_m, synced_m, lag, history >>

Monitor ==
    \/ M_Check \/ M_ReadClock \/ M_Lock \/ M_Remove \/ M_Insert \/ M_Skip
    \/ M_Unlock

\* ---------------------------------------------------------------------------
\* main
\* ---------------------------------------------------------------------------

\* The state at the entry of main: nothing is parsed, no thread is started.
MainInit ==
    /\ input_file \in MainInputs
    /\ all_processes = <<>>
    /\ current_clock = 0
    /\ all_terminated = FALSE
    /\ ready_queue = <<>>
    /\ waiting_queue = <<>>
    /\ queue_mutex = "free"
    /\ pc_s = "main"
    /\ clock_s = 0
    /\ running_process = NULL
    /\ running_until = 0
    /\ last_aging_check = 0
    /\ pc_m = "none"
    /\ clock_m = 0
    /\ idx_m = 1
    /\ completed_m = NULL
    /\ synced_m = FALSE
    /\ lag = 0
    /\ dispatched_at = 0
    /\ burst_len = 0
    /\ ran = <<>>
    /\ span_start = <<>>
    /\ span_prio = <<>>
    /\ last_event = -1
    /\ dispatches = <<>>
    /\ blocks = <<>>
    /\ clock_mutex = "free"
    /\ output_mutex = "free"
    /\ printed_s = 0
    /\ printed_m = 0

\* Faulty count test: an input file without lines is accepted.
no_processes_never(in) == FALSE

\* parse_input_file, lines 258-266: no line of the file holds a process.
no_processes(in) == Len(in) = 0

\* Lines 266-270 and 613-615: parse_input_file fails and main returns
\* EXIT_FAILURE.
Main_Reject ==
    /\ pc_s = "main"
    /\ no_processes(input_file)
    /\ pc_s' = "failed"
    /\ UNCHANGED << input_file, locking, all_processes, current_clock,
                    all_terminated,
                    ready_queue, waiting_queue, queue_mutex, clock_s,
                    running_process, running_until, last_aging_check,
                    mon_locals, lag, history >>

\* Lines 272-314 and 613-628: the records are built, the queues are
\* initialised, the I/O manager thread is created and main enters
\* run_scheduler.
Main_Start ==
    /\ pc_s = "main"
    /\ ~no_processes(input_file)
    /\ all_processes' =
         [i \in 1..Len(input_file) |-> NewProcess(input_file[i])]
    /\ ready_queue' = <<>>
    /\ waiting_queue' = <<>>
    /\ pc_m' = "check"
    /\ pc_s' = "tick"
    /\ ran' = [p \in 1..Len(input_file) |-> 0]
    /\ span_start' = [p \in 1..Len(input_file) |-> 0]
    /\ span_prio' = [p \in 1..Len(input_file) |-> 0]
    /\ dispatches' = [p \in 1..Len(input_file) |-> 0]
    /\ blocks' = [p \in 1..Len(input_file) |-> 0]
    /\ UNCHANGED << input_file, locking, current_clock, all_terminated,
                    queue_mutex,
                    sched_locals, clock_m, idx_m, completed_m, synced_m, lag,
                    dispatched_at, burst_len, last_event >>

\* ---------------------------------------------------------------------------
\* Locking protocol: every lock and unlock of the three mutexes is a step
\* ---------------------------------------------------------------------------

RECURSIVE Sum(_, _)
Sum(f, n) == IF n = 0 THEN 0 ELSE f[n] + Sum(f, n - 1)

\* The output critical sections run_scheduler has entered or has to enter for
\* what it has done so far: two per admission (lines 500-503, 508-512), one
\* per termination (538-541), per block (549-553) and per dispatch (573-578).
owed_s ==
    Sum([p \in Pids |->
            (IF all_processes[p].has_arrived THEN 2 ELSE 0)
            + (IF all_processes[p].state = "TERMINATED" THEN 1 ELSE 0)
            + blocks[p] + dispatches[p]],
        total_processes)

\* The same for io_manager_thread: one per record unlinked from the waiting
\* queue (lines 385-388) and one per record inserted into the ready queue
\* (393-396).
owed_m ==
    Sum([p \in Pids |->
            2 * (blocks[p]
                 - (IF all_processes[p].state = "WAITING" THEN 1 ELSE 0))
            - (IF completed_m = p THEN 1 ELSE 0)],
        total_processes)

\* Everything but the mutexes and the counts of printed events.
engine == << input_file, all_processes, current_clock, all_terminated,
             ready_queue, waiting_queue, queue_mutex, pc_s, sched_locals,
             mon_locals, lag, history >>

\* run_scheduler is between two statements that touch no mutex: it has
\* printed what it had to and holds neither clock_mutex nor output_mutex.
quiet_s ==
    /\ printed_s = owed_s
    /\ output_mutex # "sched"
    /\ clock_mutex # "sched"

\* The same for io_manager_thread.
quiet_m ==
    /\ printed_m = owed_m
    /\ output_mutex # "mon"
    /\ clock_mutex # "mon"

\* Line 486: pthread_mutex_lock(&clock_mutex).
L_S_LockClock ==
    /\ pc_s = "tick"
    /\ lag < MaxLag
    /\ clock_mutex = "free"
    /\ clock_mutex' = "sched"
    /\ UNCHANGED << engine, output_mutex, printed_s, printed_m >>

\* Lines 487-488, inside the critical section of clock_mutex.
L_S_Tick == clock_mutex = "sched" /\ S_Tick

\* Line 489: pthread_mutex_unlock(&clock_mutex).
L_S_UnlockClock ==
    /\ pc_s = "lockq"
    /\ clock_mutex = "sched"
    /\ clock_mutex' = "free"
    /\ UNCHANGED << engine, output_mutex, printed_s, printed_m >>

\* Faulty order: queue_mutex is requested inside the critical section of
\* clock_mutex.
L_S_Lock_nested == clock_mutex = "sched" /\ S_Lock

\* Line 491, after the unlock of line 489.
L_S_Lock == quiet_s /\ S_Lock

\* Lines 500, 508, 538, 549, 573: pthread_mutex_lock(&output_mutex) for an
\* event that is not printed yet.
L_S_LockOutput ==
    /\ printed_s < owed_s
    /\ output_mutex = "free"
    /\ output_mutex' = "sched"
    /\ UNCHANGED << engine, clock_mutex, printed_s, printed_m >>

\* Lines 501-503, 509-512, 539-541, 550-553, 574-578: printf, fflush and
\* pthread_mutex_unlock(&output_mutex).
L_S_UnlockOutput ==
    /\ output_mutex = "sched"
    /\ output_mutex' = "free"
    /\ printed_s' = printed_s + 1
    /\ UNCHANGED << engine, clock_mutex, printed_m >>

\* Lines 494-514, the output critical sections left to the two steps above.
L_S_Arrive == quiet_s /\ S_Arrive

\* Lines 517-522, the output critical sections left to the two steps above.
L_S_Age == quiet_s /\ S_Age

\* Lines 525, the output critical sections left to the two steps above.
L_S_NoResolve == quiet_s /\ S_NoResolve

\* Lines 525-543, the output critical sections left to the two steps above.
L_S_Terminate == quiet_s /\ S_Terminate

\* Lines 525-557, the output critical sections left to the two steps above.
L_S_Block == quiet_s /\ S_Block

\* Lines 561-579, the output critical sections left to the two steps above.
L_S_Dispatch == quiet_s /\ S_Dispatch

\* Lines 561, the output critical sections left to the two steps above.
L_S_NoDispatch == quiet_s /\ S_NoDispatch

\* Lines 582-594, the output critical sections left to the two steps above.
L_S_Finish == quiet_s /\ S_Finish

\* Lines 582-598, the output critical sections left to the two steps above.
L_S_Continue == quiet_s /\ S_Continue

\* Line 348: the loop test.
L_M_Check == quiet_m /\ M_Check

\* Line 351: pthread_mutex_lock(&clock_mutex).
L_M_LockClock ==
    /\ pc_m = "readclock"
    /\ clock_mutex = "free"
    /\ clock_mutex' = "mon"
    /\ UNCHANGED << engine, output_mutex, printed_s, printed_m >>

\* Line 352, inside the critical section of clock_mutex.
L_M_ReadClock == clock_mutex = "mon" /\ M_ReadClock

\* Line 353: pthread_mutex_unlock(&clock_mutex).
L_M_UnlockClock ==
    /\ pc_m = "lockq"
    /\ clock_mutex = "mon"
    /\ clock_mutex' = "free"
    /\ UNCHANGED << engine, output_mutex, printed_s, printed_m >>

\* Line 355, after the unlock of line 353.
L_M_Lock == quiet_m /\ M_Lock

\* Lines 385, 393: pthread_mutex_lock(&output_mutex).
L_M_LockOutput ==
    /\ printed_m < owed_m
    /\ output_mutex = "free"
    /\ output_mutex' = "mon"
    /\ UNCHANGED << engine, clock_mutex, printed_s, printed_m >>

\* Lines 386-388, 394-396: printf, fflush and
\* pthread_mutex_unlock(&output_mutex).
L_M_UnlockOutput ==
    /\ output_mutex = "mon"
    /\ output_mutex' = "free"
    /\ printed_m' = printed_m + 1
    /\ UNCHANGED << engine, clock_mutex, printed_s >>

\* Lines 361-388, the output critical sections left to the two steps above.
L_M_Remove == quiet_m /\ M_Remove

\* Lines 391-396, the output critical sections left to the two steps above.
L_M_Insert == quiet_m /\ M_Insert

\* Lines 398-401, the output critical sections left to the two steps above.
L_M_Skip == quiet_m /\ M_Skip

\* Lines 361, 404, the output critical sections left to the two steps above.
L_M_Unlock == quiet_m /\ M_Unlock

LockNext ==
    \/ L_S_LockClock \/ L_S_Tick \/ L_S_UnlockClock \/ L_S_Lock
    \/ L_S_LockOutput \/ L_S_UnlockOutput
    \/ L_S_Arrive \/ L_S_Age \/ L_S_NoResolve \/ L_S_Terminate \/ L_S_Block
    \/ L_S_Dispatch \/ L_S_NoDispatch \/ L_S_Finish \/ L_S_Continue
    \/ L_M_Check \/ L_M_LockClock \/ L_M_ReadClock \/ L_M_UnlockClock
    \/ L_M_Lock \/ L_M_LockOutput \/ L_M_UnlockOutput
    \/ L_M_Remove \/ L_M_Insert \/ L_M_Skip \/ L_M_Unlock

\* ---------------------------------------------------------------------------
\* Specifications
\* ---------------------------------------------------------------------------

Next ==
    \/ S_Tick \/ S_Lock \/ S_Arrive \/ S_Age \/ S_NoResolve \/ S_Terminate
    \/ S_Block \/ S_Dispatch \/ S_NoDispatch \/ S_Finish \/ S_Continue
    \/ M_Check \/ M_ReadClock \/ M_Lock \/ M_Remove \/ M_Insert \/ M_Skip
    \/ M_Unlock

Spec == Init /\ [][Next]_vars

\* Fairness.  Both threads keep running, so each takes its next step when it
\* has one (weak fairness).  Every iteration of either loop sleeps 1 ms with
\* queue_mutex released (lines 349 and 598), which lets the other thread,
\* blocked in pthread_mutex_lock, acquire it: a thread that requests the
\* mutex again and again while it is repeatedly free gets it (strong fairness
\* of the two lock steps).
Fairness ==
    /\ WF_vars(Scheduler) /\ WF_vars(Monitor)
    /\ SF_vars(S_Lock) /\ SF_vars(M_Lock)

\* The runs of the two scenarios.
ScenarioSpec == InitWith(ScenarioInputs) /\ [][Next]_vars

MainNext == Main_Reject \/ Main_Start \/ Next

\* The runs of the whole program, from the entry of main.
MainSpec == MainInit /\ [][MainNext]_vars

\* The runs with every lock and unlock as a step.
LockSpec == InitWith(FairInputs) /\ [][LockNext]_vars

FairSpec == InitWith(FairInputs) /\ [][Next]_vars /\ Fairness

\* ---------------------------------------------------------------------------
\* Observations used by the properties
\* ---------------------------------------------------------------------------

Occurrences(q, p) == Cardinality({ k \in 1..Len(q) : q[k] = p })

\* Number of places (ready queue, waiting queue, running slot) that hold p.
Places(p) ==
    Occurrences(ready_queue, p) + Occurrences(waiting_queue, p)
    + (IF running_process = p THEN 1 ELSE 0)

\* The state field of p agrees with the place that holds p.
StateAgrees(p) ==
    LET st == all_processes[p].state
    IN  /\ st \in {"NEW", "READY", "RUNNING", "WAITING", "TERMINATED"}
        /\ st = "NEW" => ~all_processes[p].has_arrived /\ Places(p) = 0
        /\ st = "READY" => Occurrences(ready_queue, p) = 1 /\ Places(p) = 1
        /\ st = "RUNNING" => running_process = p /\ Places(p) = 1
        /\ st = "WAITING" => Occurrences(waiting_queue, p) = 1 /\ Places(p) = 1
        /\ st = "TERMINATED" => Places(p) = 0
        /\ all_processes[p].has_arrived => st # "NEW"

\* q is ordered by (priority ascending, remaining time ascending).
Sorted(q) ==
    \A i \in 1..Len(q) : \A j \in 1..Len(q) :
        i < j =>
          /\ all_processes[q[i]].priority <= all_processes[q[j]].priority
          /\ all_processes[q[i]].priority = all_processes[q[j]].priority
               => all_processes[q[i]].remaining_time
                    <= all_processes[q[j]].remaining_time

\* ---------------------------------------------------------------------------
\* Properties
\* ---------------------------------------------------------------------------

\* C1: whenever queue_mutex is free, every record is in exactly one of: not
\* yet admitted, the ready queue, the running slot, the waiting queue,
\* terminated; its state field names that place, and it is in no two places.
C1_OnePlace ==
    queue_mutex = "free" => \A p \in Pids : StateAgrees(p)

\* C1 witness: with the mutex free, the ready queue, the waiting queue and the
\* running slot are all occupied.
C1_Witness ==
    /\ queue_mutex = "free"
    /\ ready_queue # <<>> /\ waiting_queue # <<>> /\ running_process # NULL

\* C2: whenever queue_mutex is free, the ready queue is sorted by (priority
\* ascending, remaining time ascending).
C2_ReadySorted ==
    queue_mutex = "free" => Sorted(ready_queue)

\* C2 witness: with the mutex free, two records are in the ready queue and the
\* one admitted later is ahead of the one admitted earlier.
C2_Witness ==
    /\ queue_mutex = "free"
    /\ Len(ready_queue) >= 2
    /\ ready_queue[1] > ready_queue[2]

\* C3: at most one record is RUNNING, and it is the record of the running
\* slot.
C3_SingleRunning ==
    /\ Cardinality({ p \in Pids : all_processes[p].state = "RUNNING" }) <= 1
    /\ \A p \in Pids :
         all_processes[p].state = "RUNNING" <=> running_process = p

\* C3 witness: a record is running while another one is ready, ahead of it in
\* the order, and the manager is between two scans.
C3_Witness ==
    /\ running_process # NULL
    /\ queue_mutex = "free"
    /\ \E p \in Pids : /\ all_processes[p].state = "READY"
                       /\ should_insert(all_processes, p, running_process)

\* C4: when the simulation has finished, every record has occupied the
\* running slot for exactly cpu_execution_time ticks (each burst counted from
\* its dispatch tick to the tick that resolves it), so the totals agree.
C4_Conservation ==
    all_terminated =>
        \A p \in Pids : ran[p] = all_processes[p].cpu_execution_time

\* C4 witness: the simulation has finished and some record needed several
\* bursts, the last one shorter than interval_time.
C4_Witness ==
    /\ all_terminated
    /\ \E p \in Pids :
         /\ all_processes[p].cpu_execution_time > all_processes[p].interval_time
         /\ all_processes[p].cpu_execution_time
              % all_processes[p].interval_time # 0

\* C5: every record's priority stays within 0..original_priority, never
\* increases, changes only in the aging pass of the scheduler, and stays 0
\* once it is 0.
C5_PriorityMonotone ==
    /\ [](\A p \in Pids :
            /\ all_processes[p].priority >= 0
            /\ all_processes[p].priority <= all_processes[p].original_priority)
    /\ [][\A p \in Pids :
            /\ all_processes'[p].priority <= all_processes[p].priority
            /\ all_processes'[p].priority # all_processes[p].priority
                 => pc_s = "age"
            /\ all_processes[p].priority = 0
                 => all_processes'[p].priority = 0]_vars

\* C5 witness: a record aged down to priority 0 is still in the ready queue
\* after its aging timer has crossed the period a second time.
C5_Witness ==
    \E p \in Pids :
        /\ all_processes[p].state = "READY"
        /\ all_processes[p].original_priority > 0
        /\ all_processes[p].priority = 0
        /\ current_clock - span_start[p] > 2 * AGING_PERIOD

\* C7: a record changes state only NEW->READY (at its single admission),
\* READY->RUNNING, RUNNING->TERMINATED (remaining time 0), RUNNING->WAITING
\* (remaining time > 0) or WAITING->READY; a terminated record stays
\* terminated and outside every queue.
C7_Transitions ==
    /\ [][\A p \in Pids :
            LET a == all_processes[p]
                b == all_processes'[p]
            IN  /\ a.state # b.state =>
                     \/ /\ a.state = "NEW" /\ b.state = "READY"
                        /\ ~a.has_arrived /\ b.has_arrived
                     \/ a.state = "READY" /\ b.state = "RUNNING"
                     \/ /\ a.state = "RUNNING" /\ b.state = "TERMINATED"
                        /\ b.remaining_time = 0
                     \/ /\ a.state = "RUNNING" /\ b.state = "WAITING"
                        /\ b.remaining_time > 0
                     \/ a.state = "WAITING" /\ b.state = "READY"
                /\ a.has_arrived => b.has_arrived
                /\ a.has_arrived # b.has_arrived => a.state = "NEW"
                /\ a.state = "TERMINATED" => b.state = "TERMINATED"]_vars
    /\ [](\A p \in Pids :
            all_processes[p].state = "TERMINATED" => Places(p) = 0)

\* C7 witness: a record has terminated after having blocked for I/O and come
\* back (it needed more than one burst).
C7_Witness ==
    \E p \in Pids :
        /\ all_processes[p].state = "TERMINATED"
        /\ all_processes[p].cpu_execution_time > all_processes[p].interval_time
        /\ all_processes[p].io_completion_time > 0

\* C8: at the end of a tick, a record that has been in the ready queue for
\* 100 ticks or more since it entered with priority p > 0 has priority at
\* most p - 1.
C8_AgingAccumulates ==
    \A p \in Pids :
        ( /\ pc_s = "tick"
          /\ all_processes[p].state = "READY"
          /\ span_prio[p] > 0
          /\ current_clock - span_start[p] >= AGING_PERIOD )
        => all_processes[p].priority <= span_prio[p] - 1

Min(a, b) == IF a < b THEN a ELSE b

\* C9: a record dispatched at tick t with burst length
\* b = min(interval_time, remaining_time) holds the running slot at the end
\* of every tick in [t, t + b) and leaves it in the tick t + b and in no other.
C9_NonPreemptive ==
    /\ [](running_process # NULL =>
            /\ burst_len = Min(all_processes[running_process].interval_time,
                               all_processes[running_process].remaining_time)
            /\ running_until = dispatched_at + burst_len
            /\ pc_s = "tick" =>
                 /\ dispatched_at <= current_clock
                 /\ current_clock < dispatched_at + burst_len)
    /\ [][running_process # NULL /\ running_process' # running_process =>
            /\ running_process' = NULL
            /\ current_clock = dispatched_at + burst_len]_vars

\* C9 witness: at the end of a tick inside a burst, a record that entered the
\* ready queue during the burst sorts ahead of the running record.
C9_Witness ==
    /\ pc_s = "tick"
    /\ running_process # NULL
    /\ \E p \in Pids :
         /\ all_processes[p].state = "READY"
         /\ span_start[p] > dispatched_at
         /\ should_insert(all_processes, p, running_process)

\* C10: a record that blocks at tick c gets the deadline c + io_time; a record
\* leaves the waiting queue only in the manager's critical section, with the
\* global clock at or past its deadline, and the other records keep their
\* order; the record unlinked is READY and is inserted into the ready queue
\* before the manager releases queue_mutex.
C10_IoCompletion ==
    /\ [][\A p \in Pids :
            /\ ( all_processes[p].state = "RUNNING"
                 /\ all_processes'[p].state = "WAITING" )
               => /\ all_processes'[p].io_completion_time
                       = current_clock + all_processes[p].io_time
                  /\ waiting_queue' = Append(waiting_queue, p)
            /\ ( InQueue(waiting_queue, p) /\ ~InQueue(waiting_queue', p) )
               => /\ current_clock >= all_processes[p].io_completion_time
                  /\ queue_mutex = "mon" /\ queue_mutex' = "mon"
                  /\ completed_m' = p
                  /\ all_processes'[p].state = "READY"
                  /\ waiting_queue'
                       = SelectSeq(waiting_queue, LAMBDA x : x # p)
            /\ ( completed_m = p /\ completed_m' # p )
               => /\ queue_mutex = "mon" /\ queue_mutex' = "mon"
                  /\ InQueue(ready_queue', p)]_vars
    /\ [](completed_m # NULL =>
            /\ queue_mutex = "mon"
            /\ all_processes[completed_m].state = "READY"
            /\ Places(completed_m) = 0)

\* C10 witness: the manager, scanning with a clock value older than the
\* global clock, has unlinked a due record from behind a record that is not
\* yet due and is about to insert it into the ready queue.
C10_Witness ==
    /\ pc_m = "insert"
    /\ idx_m > 1
    /\ clock_m < current_clock
    /\ \E k \in 1..Len(waiting_queue) :
         ~io_completed(clock_m, all_processes[waiting_queue[k]])

\* C6: under fair scheduling of both threads, the simulation eventually
\* raises all_terminated with every record TERMINATED, the manager then
\* leaves its loop, and every visit of the running slot ends with a strictly
\* smaller remaining time.
C6_Termination ==
    /\ <>(all_terminated /\ all_done /\ pc_s = "exit")
    /\ <>[](pc_m = "exit")
    /\ [][\A p \in Pids :
            ( all_processes[p].state = "RUNNING"
              /\ all_processes'[p].state # "RUNNING" )
            => all_processes'[p].remaining_time
                 < all_processes[p].remaining_time]_vars

\* C6 witness: both threads have left their loops, every record is
\* terminated, and some record went through the waiting queue on its way.
C6_Witness ==
    /\ pc_s = "exit" /\ pc_m = "exit"
    /\ all_terminated /\ all_done
    /\ \E p \in Pids : ran[p] > all_processes[p].interval_time

\* C11: the events are printed in the order of the clock values they carry:
\* no event carries a smaller clock value than the event printed before it,
\* the manager's events included.
C11_EventsClockOrdered ==
    [][last_event' >= last_event]_vars

\* C12: in the single-record scenario the record is first dispatched at tick
\* 1 for a 100 ms burst, blocks at tick 101 with deadline 151, is back in the
\* ready queue no earlier than clock 151, and over the whole run is
\* dispatched exactly 3 times, blocked exactly 2 times and terminates at the
\* end of the third burst with remaining time 0.
C12_SingleRecord ==
    input_file = SingleRecord =>
      LET r == all_processes[1]
      IN  /\ dispatches[1] <= 3 /\ blocks[1] <= 2
          /\ (dispatches[1] = 1 /\ r.state = "RUNNING")
               => dispatched_at = 1 /\ burst_len = 100
          /\ (blocks[1] = 1 /\ r.state = "WAITING")
               => /\ r.io_completion_time = 151
                  /\ ran[1] = 100 /\ dispatched_at + burst_len = 101
          /\ (blocks[1] = 1 /\ r.state = "READY") => current_clock >= 151
          /\ r.state = "TERMINATED"
               => /\ dispatches[1] = 3 /\ blocks[1] = 2
                  /\ r.remaining_time = 0 /\ ran[1] = 300
          /\ all_terminated => r.state = "TERMINATED"

\* C12 witness: the single record has terminated and the simulation has
\* finished.
C12_Witness ==
    /\ input_file = SingleRecord
    /\ all_terminated
    /\ all_processes[1].state = "TERMINATED"

C14_FinishedFlag ==
    [][ /\ (~all_terminated /\ all_terminated')
           => /\ all_done /\ running_process = NULL
              /\ is_empty(ready_queue) /\ is_empty(waiting_queue)
        /\ all_terminated
           => /\ all_terminated'
              /\ current_clock' = current_clock
              /\ pc_s = "exit" /\ pc_s' = "exit"
              /\ UNCHANGED << all_processes, ready_queue, waiting_queue,
                              running_process >> ]_vars

\* C14 witness: the flag is raised and the manager, which had not seen it,
\* scans the waiting queue once more.
C14_Witness ==
    /\ all_terminated
    /\ pc_m = "scan"
    /\ total_processes >= 2

\* C15: with an empty input main fails before the engine starts: the I/O
\* manager is never started, the clock stays 0, no event is printed and
\* run_scheduler is never entered.
C15_EmptyInputRejected ==
    input_file = <<>> =>
      /\ pc_m = "none"
      /\ pc_s \in {"main", "failed"}
      /\ current_clock = 0
      /\ last_event = -1
      /\ ~all_terminated

\* C15 witness: main has returned EXIT_FAILURE on the empty input.
C15_Witness == input_file = <<>> /\ pc_s = "failed"

\* C16: whenever the scheduler dispatches, the record it takes is the head of
\* the ready queue and no resident record has a strictly lower priority
\* number, nor an equal priority with a strictly smaller remaining time.
C16_DispatchMinimal ==
    [][ (running_process = NULL /\ running_process' # NULL)
        => LET p == running_process'
           IN  /\ ~is_empty(ready_queue)
               /\ p = Head(ready_queue)
               /\ ready_queue' = Tail(ready_queue)
               /\ \A k \in 1..Len(ready_queue) :
                    ~should_insert(all_processes, ready_queue[k], p) ]_vars

\* C16 witness: a record has just been dispatched ahead of a resident record
\* that has a lower index and a strictly worse key.
C16_Witness ==
    /\ pc_s = "finish"
    /\ running_process # NULL
    /\ dispatched_at = clock_s
    /\ \E k \in 1..Len(ready_queue) :
         /\ ready_queue[k] < running_process
         /\ should_insert(all_processes, running_process, ready_queue[k])

\* C17: at every burst resolution the amount subtracted from the remaining
\* time is the burst length min(interval_time, remaining_time) computed at
\* dispatch; the remaining time is never negative and is 0 exactly when the
\* record is TERMINATED.
C17_BurstCharge ==
    [][ /\ \A p \in Pids :
             /\ all_processes[p].remaining_time >= 0
             /\ all_processes[p].remaining_time = 0
                  <=> all_processes[p].state = "TERMINATED"
             /\ all_processes'[p].remaining_time >= 0
             /\ all_processes'[p].remaining_time = 0
                  <=> all_processes'[p].state = "TERMINATED"
        /\ (running_process # NULL /\ running_process' = NULL)
           => LET p == running_process
                  r == all_processes[p]
              IN  /\ burst_len = Min(r.interval_time, r.remaining_time)
                  /\ r.remaining_time - all_processes'[p].remaining_time
                       = burst_len ]_vars

\* C17 witness: a last burst shorter than the interval has been charged and
\* the record has terminated.
C17_Witness ==
    \E p \in Pids :
        /\ all_processes[p].state = "TERMINATED"
        /\ all_processes[p].remaining_time = 0
        /\ all_processes[p].cpu_execution_time
             % all_processes[p].interval_time # 0
        /\ ran[p] = all_processes[p].cpu_execution_time

\* x and y have the same (priority, remaining time) key.
SameKey(all, x, y) ==
    /\ all[x].priority = all[y].priority
    /\ all[x].remaining_time = all[y].remaining_time

\* The position of p in q.
Pos(q, p) == CHOOSE k \in 1..Len(q) : q[k] = p

\* Every step keeps the ready queue stable: of two records whose keys are
\* equal after the step, residents keep their relative order, a newcomer
\* stands behind a resident, and two newcomers stand in index order.
StableStep ==
    \A x, y \in Pids :
        ( /\ x # y
          /\ InQueue(ready_queue', x) /\ InQueue(ready_queue', y)
          /\ SameKey(all_processes', x, y) )
        => /\ ( /\ InQueue(ready_queue, x) /\ InQueue(ready_queue, y)
                /\ Pos(ready_queue, x) < Pos(ready_queue, y) )
              => Pos(ready_queue', x) < Pos(ready_queue', y)
           /\ (InQueue(ready_queue, x) /\ ~InQueue(ready_queue, y))
              => Pos(ready_queue', x) < Pos(ready_queue', y)
           /\ (~InQueue(ready_queue, x) /\ ~InQueue(ready_queue, y) /\ x < y)
              => Pos(ready_queue', x) < Pos(ready_queue', y)

\* C18 as stated: insertion and re-sort are stable, and a dispatched record
\* entered the ready queue no later than any resident record with an equal
\* key.
C18_EarlierEntrantFirst ==
    [][ /\ StableStep
        /\ (running_process = NULL /\ running_process' # NULL)
           => \A k \in 1..Len(ready_queue) :
                 ( /\ ready_queue[k] # running_process'
                   /\ SameKey(all_processes, ready_queue[k],
                              running_process') )
                 => span_start[ready_queue[k]]
                      >= span_start[running_process'] ]_vars

\* C18, amended: insertion and re-sort are stable, and of the records with
\* equal keys the one nearest the head is dispatched first.
C18_StableInsertion ==
    [][ /\ StableStep
        /\ (running_process = NULL /\ running_process' # NULL)
           => \A k \in 1..Len(ready_queue) :
                 ( /\ ready_queue[k] # running_process'
                   /\ SameKey(all_processes, ready_queue[k],
                              running_process') )
                 => Pos(ready_queue, running_process') < k ]_vars

\* C18 witness: a record is dispatched for the first time, at a tick later
\* than its arrival, while a record with an equal key that entered the ready
\* queue before that arrival is still resident.
C18_Witness ==
    /\ pc_s = "finish"
    /\ running_process # NULL
    /\ dispatched_at = clock_s
    /\ dispatches[running_process] = 1
    /\ \E k \in 1..Len(ready_queue) :
         /\ SameKey(all_processes, ready_queue[k], running_process)
         /\ span_start[ready_queue[k]]
              < all_processes[running_process].arrival_time

\* C19: for every content of the ready queue, sizes 0 and 1 included, the
\* re-sort after an aging pass leaves the queue and every field of every
\* record, time_in_ready_queue included, as draining the queue and inserting
\* every record again would.
C19_ResortIsDrainReinsert ==
    [][ (pc_s = "age" /\ pc_s' = "resolve" /\ clock_s > last_aging_check)
        => LET elapsed == clock_s - last_aging_check
               aged == update_aging(all_processes, ready_queue, elapsed)
               ref == drain_and_reinsert(aged, ready_queue)
           IN  /\ ready_queue' = ref.q
               /\ all_processes' = ref.all ]_vars

\* C20: while the manager scans the waiting queue, the clock value it read
\* before taking queue_mutex is the global clock or the global clock minus 1.
C20_StaleByAtMostOne ==
    pc_m \in {"scan", "insert"} =>
      current_clock - clock_m \in {0, 1}

\* C21: when the scheduler releases queue_mutex at the end of a tick, a
\* vacant running slot means an empty ready queue, and a held slot is held
\* beyond this tick.  In particular the dispatch step of a tick that finds
\* the slot vacant and a record ready dispatches the head at this tick; a
\* record admitted at this tick leaves the slot held; and when a burst ended
\* at this tick by a block, the slot, if held, is held by a record dispatched
\* at this tick.
C21_WorkConserving ==
    [][ /\ (pc_s = "finish" /\ pc_s' # "finish")
           => /\ queue_mutex = "sched" /\ queue_mutex' = "free"
              /\ running_process = NULL => is_empty(ready_queue)
              /\ running_process # NULL => running_until > clock_s
              /\ \A p \in Pids :
                   ( /\ all_processes[p].has_arrived
                     /\ all_processes[p].state # "TERMINATED"
                     /\ clock_s = (IF all_processes[p].arrival_time = 0
                                   THEN 1
                                   ELSE all_processes[p].arrival_time) )
                   => running_process # NULL
              /\ \A p \in Pids :
                   ( /\ all_processes[p].state = "WAITING"
                     /\ all_processes[p].io_completion_time
                          = clock_s + all_processes[p].io_time
                     /\ running_process # NULL )
                   => dispatched_at = clock_s
        /\ ( /\ pc_s = "dispatch" /\ pc_s' = "finish"
             /\ running_process = NULL /\ ~is_empty(ready_queue) )
           => /\ running_process' = Head(ready_queue)
              /\ dispatched_at' = clock_s ]_vars

\* C21 witness: at the end of a tick a record has just been blocked for I/O
\* and another record, ready at this tick, holds the slot, dispatched at this
\* tick.
C21_Witness ==
    /\ pc_s = "finish"
    /\ running_process # NULL
    /\ dispatched_at = clock_s
    /\ \E p \in Pids :
         /\ p # running_process
         /\ all_processes[p].state = "WAITING"
         /\ all_processes[p].io_time > 0
         /\ all_processes[p].io_completion_time
              = clock_s + all_processes[p].io_time

\* The mutex run_scheduler is about to request, "none" if its next statement
\* is not a pthread_mutex_lock.
wants_s ==
    IF pc_s = "tick" /\ clock_mutex # "sched" THEN "clock"
    ELSE IF pc_s = "lockq" /\ clock_mutex # "sched" THEN "queue"
    ELSE IF printed_s < owed_s /\ output_mutex # "sched" THEN "output"
    ELSE "none"

\* The same for io_manager_thread.
wants_m ==
    IF pc_m = "readclock" /\ clock_mutex # "mon" THEN "clock"
    ELSE IF pc_m = "lockq" /\ clock_mutex # "mon" THEN "queue"
    ELSE IF printed_m < owed_m /\ output_mutex # "mon" THEN "output"
    ELSE "none"

\* The owner of the mutex of that name.
owner(m) ==
    IF m = "clock" THEN clock_mutex
    ELSE IF m = "queue" THEN queue_mutex
    ELSE output_mutex

\* The thread waits in pthread_mutex_lock for a mutex the other thread holds.
blocked_s == wants_s # "none" /\ owner(wants_s) = "mon"
blocked_m == wants_m # "none" /\ owner(wants_m) = "sched"

\* C22: a thread that holds clock_mutex holds no other mutex; a thread that
\* holds output_mutex does not hold clock_mutex and requests no mutex before
\* it has released it; the two threads are never both waiting for a mutex,
\* and a thread that waits for one waits for a running thread; a thread that
\* holds queue_mutex is not waiting for a mutex, and a thread that has left
\* its loop holds no mutex; until both threads have left their loops some
\* step is possible.
C22_NoDeadlock ==
    /\ (pc_s # "exit" \/ pc_m # "exit") => ENABLED LockNext
    /\ clock_mutex = "sched"
         => queue_mutex # "sched" /\ output_mutex # "sched"
    /\ clock_mutex = "mon" => queue_mutex # "mon" /\ output_mutex # "mon"
    /\ output_mutex = "sched"
         => wants_s = "none" /\ pc_s \notin {"tick", "lockq"}
    /\ output_mutex = "mon"
         => wants_m = "none" /\ pc_m \notin {"readclock", "lockq"}
    /\ ~(blocked_s /\ blocked_m)
    /\ blocked_s => pc_m # "exit"
    /\ blocked_m => pc_s # "exit"
    /\ queue_mutex = "sched" => ~blocked_s /\ pc_s # "exit"
    /\ queue_mutex = "mon" => ~blocked_m /\ pc_m # "exit"
    /\ pc_s = "exit" => clock_mutex # "sched" /\ output_mutex # "sched"
    /\ pc_m = "exit" => clock_mutex # "mon" /\ output_mutex # "mon"

\* C22 witness: run_scheduler waits for queue_mutex while io_manager_thread
\* holds it and prints under output_mutex.
C22_Witness ==
    /\ blocked_s
    /\ wants_s = "queue"
    /\ queue_mutex = "mon"
    /\ output_mutex = "mon"

====
